---- MODULE Spec2Model ----
(***************************************************************************)
(* Transaction runners of mongo-replica-local: the bounded runner          *)
(* (run-transaction), the no-timeout runner, the hang-on-commit runner and *)
(* the hang-pause runner, each driving one multi-statement transaction     *)
(* against a three-member replica set whose members are stopped, paused,   *)
(* partitioned and restored from outside while the run is in progress.     *)
(***************************************************************************)
EXTENDS Integers, Sequences, FiniteSets, TLC

(***************************************************************************)
(* Bounds of the model.                                                    *)
(***************************************************************************)
\* fault-injection commands (stop, pause, partition, restore) during one run
MaxFaultOps == 2
\* environment variables set by the caller of the bounded runner
MaxEnvSet == 1
\* times withTransaction runs the transaction again within its time limit
MaxRetries == 2
\* launches of one runner on one machine
MaxRuns == 2
\* milliseconds the clock advances while they run
MaxClock == 3

\* commands typed at the shell in one scenario
MaxScripts == 3

(***************************************************************************)
(* Program constants.                                                      *)
(***************************************************************************)
MaxTimeMSExpiredCode == 50
WriteConcernFailedCode == 64
ExceededTimeLimitCode == 262
DefaultWTimeoutMs == 2000
DefaultMaxCommitMs == 1500
DefaultOpMaxTimeMs == 1000
UnboundedServerSelectionMs == 300000
UnboundedSocketTimeoutMs == 0
InsertLoopCount == 3
HangCommitCountdown == 30
HangPauseCountdown == 15

Runners == {"bounded", "notimeout", "hangcommit", "hangpause"}
UnboundedRunners == {"notimeout", "hangcommit", "hangpause"}
\* the replica set of MONGO_URI: mongo1, mongo2, mongo3
MemberCount == 3
Statuses == {"up", "stopped", "paused", "partitioned"}

(***************************************************************************)
(* Values a catch block can receive.  kind "object" is an error object;    *)
(* code 0 stands for an absent code, codeName "absent" for an absent       *)
(* codeName.  label describes the hasErrorLabel property: "absent",        *)
(* "transient" (a function answering true for TransientTransactionError),  *)
(* "none" (a function answering false) or "noncallable" (a truthy value    *)
(* that is not a function).  11000 is a code no rule names.                *)
(***************************************************************************)
Codes == {0, MaxTimeMSExpiredCode, WriteConcernFailedCode, ExceededTimeLimitCode, 11000}
CodeNames == {"absent", "MaxTimeMSExpired", "WriteConcernFailed", "ExceededTimeLimit",
              "NotPrimaryOrSecondary", "InterruptedDueToReplStateChange",
              "NotWritablePrimary", "DuplicateKey"}
Labels == {"absent", "transient", "none", "noncallable"}

ErrObj(c, n, l) == [kind |-> "object", code |-> c, codeName |-> n, label |-> l]
ThrownNull == [kind |-> "null", code |-> 0, codeName |-> "absent", label |-> "absent"]
ThrownUndefined == [kind |-> "undefined", code |-> 0, codeName |-> "absent", label |-> "absent"]
NoError == [kind |-> "none", code |-> 0, codeName |-> "absent", label |-> "absent"]

ThrownValues == {ErrObj(c, n, l) : c \in Codes, n \in CodeNames, l \in Labels}
                  \cup {ThrownNull, ThrownUndefined}

(***************************************************************************)
(* The classification chains of the four catch blocks.                     *)
(***************************************************************************)
IsOperationTimeout(e) == e.codeName = "MaxTimeMSExpired" \/ e.code = MaxTimeMSExpiredCode
IsWriteConcernTimeout(e) == e.codeName = "WriteConcernFailed" \/ e.code = WriteConcernFailedCode
IsCommitTimeout(e) == e.codeName = "ExceededTimeLimit" \/ e.code = ExceededTimeLimitCode

\* error.hasErrorLabel && error.hasErrorLabel('TransientTransactionError')
HasTransientLabel(e) == e.label = "transient"

\* reading error.code of null or undefined raises a TypeError
ReadRaises(e) == e.kind \in {"null", "undefined"}

\* calling a truthy hasErrorLabel that is not a function raises a TypeError
LabelCallRaises(e) == e.label = "noncallable"

\* the chain with the label test moved ahead of the commit-timeout test
TimeoutChainLabelFirst(e, rest) ==
  IF IsOperationTimeout(e) THEN "OperationTimeout"
  ELSE IF IsWriteConcernTimeout(e) THEN "WriteConcernTimeout"
  ELSE IF LabelCallRaises(e) THEN "TypeError"
  ELSE IF HasTransientLabel(e) THEN "Retryable"
  ELSE IF IsCommitTimeout(e) THEN "CommitTimeout"
  ELSE rest

\* rules 1 to 4 as the bounded, no-timeout and hang-on-commit runners test them
TimeoutChain(e, rest) ==
  IF IsOperationTimeout(e) THEN "OperationTimeout"
  ELSE IF IsWriteConcernTimeout(e) THEN "WriteConcernTimeout"
  ELSE IF IsCommitTimeout(e) THEN "CommitTimeout"
  ELSE IF LabelCallRaises(e) THEN "TypeError"
  ELSE IF HasTransientLabel(e) THEN "Retryable"
  ELSE rest

ClassifyBounded(e) ==
  IF ReadRaises(e) THEN "TypeError" ELSE TimeoutChain(e, "Unclassified")

ClassifyNoTimeout(e) ==
  IF ReadRaises(e) THEN "TypeError" ELSE TimeoutChain(e, "Unclassified")

ClassifyHangCommit(e) ==
  IF ReadRaises(e) THEN "TypeError"
  ELSE TimeoutChain(e,
         IF e.codeName \in {"NotPrimaryOrSecondary", "InterruptedDueToReplStateChange"}
         THEN "TopologyChange" ELSE "Unclassified")

ClassifyHangPause(e) ==
  IF ReadRaises(e) THEN "TypeError"
  ELSE IF e.codeName \in {"NotWritablePrimary", "NotPrimaryOrSecondary"}
       THEN "TopologyChange" ELSE "Unclassified"

Classify(r, e) ==
  CASE r = "bounded" -> ClassifyBounded(e)
    [] r = "notimeout" -> ClassifyNoTimeout(e)
    [] r = "hangcommit" -> ClassifyHangCommit(e)
    [] r = "hangpause" -> ClassifyHangPause(e)

(***************************************************************************)
(* Timeout configuration.  A knob is absent (the option is not passed), or *)
(* a number of milliseconds; 0 means "no timeout" to the driver.           *)
(***************************************************************************)
Absent == [kind |-> "absent", ms |-> 0]
Ms(n) == [kind |-> "ms", ms |-> n]
Finite(k) == k.kind = "ms" /\ k.ms > 0

EnvNames == {"W_TIMEOUT_MS", "MAX_COMMIT_MS", "OP_MAXTIME_MS"}
EnvValues == {"unset", "0"}
EnvConfigs == {f \in [EnvNames -> EnvValues] :
                 Cardinality({n \in EnvNames : f[n] # "unset"}) <= MaxEnvSet}

\* an absent variable read as "0"
EnvOrZero(v, default) == IF v \in {"unset", ""} THEN "0" ELSE v

\* process.env.X || '<default>'
EnvOr(v, default) == IF v \in {"unset", ""} THEN default ELSE v

\* parseInt(s, 10) on the strings the model draws
ParseInt(s) ==
  CASE s = "0" -> Ms(0)
    [] s = "2000" -> Ms(DefaultWTimeoutMs)
    [] s = "1500" -> Ms(DefaultMaxCommitMs)
    [] s = "1000" -> Ms(DefaultOpMaxTimeMs)
    [] s = "-5" -> Ms(-5)

W_TIMEOUT_MS(e) == ParseInt(EnvOr(e["W_TIMEOUT_MS"], "2000"))
MAX_COMMIT_MS(e) == ParseInt(EnvOr(e["MAX_COMMIT_MS"], "1500"))
OP_MAXTIME_MS(e) == ParseInt(EnvOr(e["OP_MAXTIME_MS"], "1000"))

\* the unbounded runners passing a write-concern timeout
KnobsWithWTimeout(r, e) ==
  [wtimeout |-> W_TIMEOUT_MS(e), maxCommitTimeMS |-> IF r = "bounded" THEN MAX_COMMIT_MS(e) ELSE Absent,
   maxTimeMS |-> IF r = "bounded" THEN OP_MAXTIME_MS(e) ELSE Absent,
   socketTimeoutMS |-> IF r = "bounded" THEN Absent ELSE Ms(UnboundedSocketTimeoutMs),
   serverSelectionTimeoutMS |-> IF r = "bounded" THEN Absent ELSE Ms(UnboundedServerSelectionMs)]

\* the unbounded runners connecting with a finite socket timeout
KnobsWithSocketTimeout(r, e) ==
  [wtimeout |-> IF r = "bounded" THEN W_TIMEOUT_MS(e) ELSE Absent,
   maxCommitTimeMS |-> IF r = "bounded" THEN MAX_COMMIT_MS(e) ELSE Absent,
   maxTimeMS |-> IF r = "bounded" THEN OP_MAXTIME_MS(e) ELSE Absent,
   socketTimeoutMS |-> IF r = "bounded" THEN Absent ELSE Ms(UnboundedServerSelectionMs),
   serverSelectionTimeoutMS |-> IF r = "bounded" THEN Absent ELSE Ms(UnboundedServerSelectionMs)]

\* the options each runner passes to the driver
Knobs(r, e) ==
  IF r = "bounded"
  THEN [wtimeout |-> W_TIMEOUT_MS(e), maxCommitTimeMS |-> MAX_COMMIT_MS(e),
        maxTimeMS |-> OP_MAXTIME_MS(e), socketTimeoutMS |-> Absent,
        serverSelectionTimeoutMS |-> Absent]
  ELSE [wtimeout |-> Absent, maxCommitTimeMS |-> Absent, maxTimeMS |-> Absent,
        socketTimeoutMS |-> Ms(UnboundedSocketTimeoutMs),
        serverSelectionTimeoutMS |-> Ms(UnboundedServerSelectionMs)]

(***************************************************************************)
(* The statements of each runner's try block, in program order.            *)
(***************************************************************************)
BoundedSleepMs == 700
NoTimeoutSleepMs == 5000
CountdownSleepMs == 1000
HangCommitExtraSleepMs == 5000

Step(k, n, ms) == [kind |-> k, n |-> n, ms |-> ms]
InsertLoop == [j \in 1..InsertLoopCount |-> Step("op", j, 0)]

TwoOpProgram(ms) ==
  << Step("connect", 0, 0), Step("createIndex", 0, 0), Step("startSession", 0, 0),
     Step("startTransaction", 0, 0), Step("op", 1, 0), Step("sleep", 1, ms),
     Step("op", 2, 0), Step("commit", 0, 0) >>

\* the hang runners issuing one more insert after the countdown
ProgramInsertAfterWait(r) ==
  IF r \in {"bounded", "notimeout"}
  THEN TwoOpProgram(IF r = "bounded" THEN BoundedSleepMs ELSE NoTimeoutSleepMs)
  ELSE << Step("connect", 0, 0), Step("startSession", 0, 0),
          Step("startTransaction", 0, 0) >> \o InsertLoop \o
       << Step("sleep", HangPauseCountdown, CountdownSleepMs),
          Step("op", InsertLoopCount + 1, 0), Step("commit", 0, 0) >>

Program(r) ==
  CASE r = "bounded" -> TwoOpProgram(BoundedSleepMs)
    [] r = "notimeout" -> TwoOpProgram(NoTimeoutSleepMs)
    [] r = "hangcommit" ->
         << Step("connect", 0, 0), Step("startSession", 0, 0),
            Step("startTransaction", 0, 0) >> \o InsertLoop \o
         << Step("sleep", HangCommitCountdown, CountdownSleepMs),
            Step("sleep", 1, HangCommitExtraSleepMs), Step("commit", 0, 0) >>
    [] r = "hangpause" ->
         << Step("connect", 0, 0), Step("startSession", 0, 0),
            Step("startTransaction", 0, 0) >> \o InsertLoop \o
         << Step("sleep", HangPauseCountdown, CountdownSleepMs), Step("commit", 0, 0) >>

(***************************************************************************)
(* State.                                                                  *)
(***************************************************************************)
VARIABLES
  runner,          \* which of the four programs runs
  env,             \* the environment variables of the process
  socketDefault,   \* the driver's socket timeout when the URI names none
  members,         \* how many replica members are in each status
  faultOps,        \* fault-injection commands issued so far
  pc,              \* "try", "classify", "abort", "endSession", "close",
                   \* "settle", "exited", "interrupted"
  ip,              \* index of the current statement of the try block
  i,               \* remaining iterations of the current sleep loop
  call,            \* "none", or what the awaited call is waiting for
  session,         \* "null" or "started"
  inTxn,           \* what session.inTransaction() answers
  error,           \* the value caught by the catch block
  failedAt,        \* the statement kind that raised it
  category,        \* the branch the classification chain took
  thrown,          \* a value raised inside the catch block, pending
  outcome,         \* "none", "Committed", "AbortedWithError"
  swallowed,       \* createIndex failures discarded by the inner catch
  abortAttempts, abortFailed, endSessionCalls, closeCalls,
  events,          \* begin/end of every statement, in order
  slept,           \* milliseconds the run has slept between statements
  atCommit,        \* the replica set when commit was issued: "notIssued",
                   \* "majority", "silent" or "unreachable"
  fired,           \* timeouts that ended a pending call: <<stage, wait>>
  exitCode,        \* -1 while running, else the process exit status
  now,             \* Date.now() of the machine, in milliseconds since the first launch
  runs,            \* the launches of one runner side by side: position and testId
  sh               \* the script of scripts/ in progress and what it acts on

vars == << runner, env, socketDefault, members, faultOps, pc, ip, i, call, session,
           inTxn, error, failedAt, category, thrown, outcome, swallowed,
           abortAttempts, abortFailed, endSessionCalls, closeCalls, events, slept,
           atCommit, fired, exitCode, now, runs, sh >>

cluster == << members, faultOps >>
\* the clock and the launches, which no step of a single run changes
launches == << now, runs, sh >>
config == << runner, env, socketDefault, launches >>
counters == << abortAttempts, abortFailed, endSessionCalls, closeCalls >>
caught == << error, failedAt, category, thrown >>

\* the four programs, tabulated once
Programs == [r \in Runners |-> Program(r)]
Prog == Programs[runner]
Cur == Prog[ip]
\* the call the run is in: a statement of the try block, or a cleanup call
Stage == IF pc = "try" THEN Cur.kind ELSE pc
K == Knobs(runner, env)

NetworkStages == {"connect", "createIndex", "op", "commit", "abort", "endSession", "close"}
SyncStages == {"startSession", "startTransaction"}
WaitKinds == {"selection", "socket", "majority"}

(***************************************************************************)
(* The replica set as the runners' comments and the README describe it:    *)
(* a stopped or killed member refuses connections, a paused or partitioned *)
(* member stays silent.  The runners never name a member, so the state     *)
(* counts the members in each status.                                      *)
(***************************************************************************)
AnyUp == members["up"] > 0
AnyFrozen == members["paused"] + members["partitioned"] > 0
AnyStopped == members["stopped"] > 0
MajorityUp == 2 * members["up"] > MemberCount

TwoSilent == members["paused"] + members["partitioned"] >= 2 /\ members["stopped"] = 0
ClusterView == IF MajorityUp THEN "majority" ELSE IF TwoSilent THEN "silent" ELSE "unreachable"

\* a write concern that waits for every member
WriteConcernAll == "all"

\* writeConcern: { w: 'majority', ... } of the transaction options
WriteConcernW == "majority"

\* the members the write concern names can acknowledge the commit
Acknowledged == IF WriteConcernW = "majority" THEN MajorityUp
                ELSE members["up"] = MemberCount

\* the call can return successfully now
CanSucceed(st) ==
  \/ st \in {"endSession", "close"}
  \/ MajorityUp /\ (st = "commit" => Acknowledged)

\* the engine can answer the call with an error now
CanRaise(st) == st \notin {"endSession", "close"} /\ (MajorityUp \/ AnyStopped)

\* what a call issued now can be left waiting for: the answer of a silent
\* member on its socket, a selectable server, or the majority's acknowledgment
CanWaitFor(st) ==
  (IF AnyFrozen /\ st \notin {"connect", "close"} THEN {"socket"} ELSE {})
  \cup (IF ~MajorityUp /\ (AnyStopped \/ st = "connect") /\ st \notin {"endSession", "close"}
        THEN {"selection"} ELSE {})
  \cup (IF AnyUp /\ ((~MajorityUp /\ st \in {"op", "commit", "abort"})
                      \/ (~Acknowledged /\ st = "commit"))
        THEN {"majority"} ELSE {})

\* a pending call can return successfully now
CanRecover(st, w) == IF w = "socket" THEN ~AnyFrozen /\ CanSucceed(st) ELSE CanSucceed(st)

\* the timeout options that bound a call of stage st waiting for w; maxTimeMS,
\* wtimeout and maxCommitTimeMS are enforced by the engine, so they bound the
\* wait for a majority and not the wait for a silent member
SocketBounded(k) == IF k.socketTimeoutMS.kind = "absent" THEN socketDefault = "finite"
                    ELSE Finite(k.socketTimeoutMS)
ServerSelectionBounded(k) == k.serverSelectionTimeoutMS.kind = "absent"
                               \/ Finite(k.serverSelectionTimeoutMS)
MajorityBounded(k, st) ==
  CASE st = "op" -> Finite(k.maxTimeMS)
    [] st = "commit" -> Finite(k.maxCommitTimeMS) \/ Finite(k.wtimeout)
    [] st = "abort" -> Finite(k.wtimeout)
    [] OTHER -> FALSE

BoundApplies(k, st, w) ==
  CASE w = "selection" -> ServerSelectionBounded(k)
    [] w = "socket" -> SocketBounded(k)
    [] w = "majority" -> MajorityBounded(k, st)

(***************************************************************************)
(* Errors the driver raises in a run.                                      *)
(***************************************************************************)
EMaxTime == ErrObj(MaxTimeMSExpiredCode, "MaxTimeMSExpired", "none")
EWriteConcern == ErrObj(WriteConcernFailedCode, "WriteConcernFailed", "none")
ECommitTime == ErrObj(ExceededTimeLimitCode, "ExceededTimeLimit", "transient")
ETransient == ErrObj(0, "absent", "transient")
ENotPrimary == ErrObj(0, "NotWritablePrimary", "none")
EDuplicate == ErrObj(11000, "DuplicateKey", "none")
EPlain == ErrObj(0, "absent", "absent")

\* what the engine can answer a call of stage st with
EngineErrors(st) ==
  CASE st = "connect" -> {EPlain}
    [] st = "createIndex" -> {EPlain, ENotPrimary}
    [] st = "op" -> {ETransient, ENotPrimary, EDuplicate}
    [] st \in {"commit", "abort"} -> {ETransient, ENotPrimary, EPlain}
    [] OTHER -> {}

TimeoutErrors(k, st, w) ==
  CASE w = "selection" -> {EPlain}
    [] w = "socket" -> {ETransient}
    [] w = "majority" ->
         (IF st = "op" THEN {EMaxTime} ELSE {})
         \cup (IF st = "commit" /\ Finite(k.maxCommitTimeMS) THEN {ECommitTime} ELSE {})
         \cup (IF st \in {"commit", "abort"} /\ Finite(k.wtimeout) THEN {EWriteConcern} ELSE {})

\* no script of scripts/ has been started
NoScript == [script |-> "none"]

\* no launch has happened
NoRuns == [p \in 1..MaxRuns |-> [pc |-> "idle", id |-> << >>]]

(***************************************************************************)
(* Initial state: the process has started, nothing has run.                *)
(***************************************************************************)
Init ==
  /\ runner \in Runners
  /\ env \in EnvConfigs
  /\ (runner # "bounded" => env = [n \in EnvNames |-> "unset"])
  /\ socketDefault \in {"none", "finite"}
  /\ (runner # "bounded" => socketDefault = "none")
  /\ members = [st \in Statuses |-> IF st = "up" THEN MemberCount ELSE 0]
  /\ faultOps = 0
  /\ pc = "try" /\ ip = 1 /\ i = 0 /\ call = "none"
  /\ session = "null" /\ inTxn = FALSE
  /\ error = NoError /\ failedAt = "none" /\ category = "none" /\ thrown = "none"
  /\ outcome = "none" /\ swallowed = 0
  /\ abortAttempts = 0 /\ abortFailed = FALSE /\ endSessionCalls = 0 /\ closeCalls = 0
  /\ events = << >> /\ slept = 0 /\ atCommit = "notIssued" /\ fired = {} /\ exitCode = -1
  /\ now = 0 /\ runs = NoRuns /\ sh = NoScript

(***************************************************************************)
(* Fragments shared by the actions.  Each one sets pc, ip, i, events,      *)
(* inTxn, outcome, swallowed, abortFailed, error, failedAt and thrown.     *)
(***************************************************************************)
Ev(what, n) == << what, n >>

\* control moves to the statement after the current one
Advance(pre) ==
  /\ pc' = "try"
  /\ ip' = ip + 1
  /\ i' = IF Prog[ip + 1].kind = "sleep" THEN Prog[ip + 1].n ELSE 0
  /\ events' = events \o pre \o << Ev("end", ip) >>
                 \o (IF Prog[ip + 1].kind = "sleep" THEN << Ev("begin", ip + 1) >> ELSE << >>)

\* the catch block entered without the failure being reported
EnterCatchSilently(e, st) ==
  /\ pc' = "classify"
  /\ error' = e
  /\ failedAt' = st
  /\ UNCHANGED << ip, i, events, swallowed, abortFailed, thrown, outcome >>

\* } catch (error: any) {
EnterCatch(e, st) ==
  /\ pc' = "classify"
  /\ error' = e
  /\ failedAt' = st
  /\ outcome' = "AbortedWithError"
  /\ UNCHANGED << ip, i, events, swallowed, abortFailed, thrown >>

\* the abort failure leaves the catch block
AbortFailureEscapes == [pc |-> "endSession", thrown |-> "AbortError"]

\* the pc after a failed abortTransaction: its catch logs and falls through
AfterAbortFailure == [pc |-> "endSession", thrown |-> "none"]

\* the pc after a createIndex failure: the inner catch discards it
AfterIndexFailure == "continue"

\* a failed operation is logged and the run goes on with the next statement
OpFailureContinues == "continue"

\* where a failed operation or connect leaves the try block: the outer catch
AfterOpFailure == "catch"

\* the awaited call of stage st returns
Succeed(st) ==
  CASE st \in {"connect", "createIndex", "op"} ->
         /\ Advance(<< >>)
         /\ UNCHANGED << inTxn, outcome, swallowed, abortFailed, error, failedAt, thrown >>
    [] st = "commit" ->
         /\ pc' = "endSession"
         /\ inTxn' = FALSE
         /\ outcome' = "Committed"
         /\ events' = events \o << Ev("end", ip) >>
         /\ UNCHANGED << ip, i, swallowed, abortFailed, error, failedAt, thrown >>
    [] st = "abort" ->
         /\ pc' = "endSession"
         /\ inTxn' = FALSE
         /\ UNCHANGED << ip, i, events, outcome, swallowed, abortFailed, error, failedAt, thrown >>
    [] st = "endSession" ->
         /\ pc' = "close"
         /\ UNCHANGED << ip, i, events, inTxn, outcome, swallowed, abortFailed, error, failedAt, thrown >>
    [] st = "close" ->
         /\ pc' = "settle"
         /\ UNCHANGED << ip, i, events, inTxn, outcome, swallowed, abortFailed, error, failedAt, thrown >>

\* the awaited call of stage st raises e
Raise(st, e) ==
  CASE st = "createIndex" /\ AfterIndexFailure = "continue" ->
         /\ Advance(<< >>)
         /\ swallowed' = swallowed + 1
         /\ UNCHANGED << inTxn, outcome, abortFailed, error, failedAt, thrown >>
    [] st = "createIndex" /\ AfterIndexFailure # "continue" ->
         /\ EnterCatch(e, st) /\ UNCHANGED inTxn
    [] st \in {"connect", "op"} /\ AfterOpFailure = "catch" ->
         /\ EnterCatch(e, st) /\ UNCHANGED inTxn
    [] st \in {"connect", "op"} /\ AfterOpFailure # "catch" ->
         /\ pc' = "try" /\ ip' = ip + 1
         /\ i' = IF Prog[ip + 1].kind = "sleep" THEN Prog[ip + 1].n ELSE 0
         /\ events' = events \o (IF Prog[ip + 1].kind = "sleep"
                                 THEN << Ev("begin", ip + 1) >> ELSE << >>)
         /\ UNCHANGED << inTxn, outcome, swallowed, abortFailed, error, failedAt, thrown >>
    [] st = "commit" ->
         \* whether the session still reports a transaction is the driver's
         /\ EnterCatch(e, st) /\ inTxn' \in BOOLEAN
    [] st = "abort" ->
         /\ pc' = AfterAbortFailure.pc
         /\ thrown' = AfterAbortFailure.thrown
         /\ abortFailed' = TRUE
         /\ UNCHANGED << ip, i, events, inTxn, outcome, swallowed, error, failedAt >>
    [] st \in {"endSession", "close"} ->
         \* a timed-out cleanup call returns; the driver discards the failure
         Succeed(st)

(***************************************************************************)
(* The try block.                                                          *)
(***************************************************************************)
rest == << session, category, abortAttempts, endSessionCalls, closeCalls, fired, exitCode >>
hist == << slept, atCommit >>

\* an awaited driver call of the try block is issued
IssueTry ==
  /\ pc = "try" /\ call = "none"
  /\ Cur.kind \in {"connect", "createIndex", "op", "commit"}
  /\ call' = "inflight"
  /\ events' = events \o << Ev("begin", ip) >>
  /\ atCommit' = IF Cur.kind = "commit" THEN ClusterView ELSE atCommit
  /\ UNCHANGED << config, cluster, pc, ip, i, inTxn, error, failedAt, thrown, outcome,
                  swallowed, abortFailed, rest, slept >>

\* session = client.startSession()
StartSession ==
  /\ pc = "try" /\ call = "none" /\ Cur.kind = "startSession"
  /\ \/ /\ session' = "started"
        /\ Advance(<< Ev("begin", ip) >>)
        /\ UNCHANGED << error, failedAt, outcome >>
     \/ /\ EnterCatch(EPlain, "startSession")
        /\ UNCHANGED session
  /\ UNCHANGED << config, cluster, call, inTxn, swallowed, abortFailed, thrown, category,
                  abortAttempts, endSessionCalls, closeCalls, fired, hist, exitCode >>

\* session.startTransaction(transactionOptions)
StartTransaction ==
  /\ pc = "try" /\ call = "none" /\ Cur.kind = "startTransaction"
  /\ \/ /\ inTxn' = TRUE
        /\ Advance(<< Ev("begin", ip) >>)
        /\ UNCHANGED << error, failedAt, outcome >>
     \/ /\ EnterCatch(EPlain, "startTransaction")
        /\ UNCHANGED inTxn
  /\ UNCHANGED << config, cluster, call, swallowed, abortFailed, thrown, rest, hist >>

\* the loop leaves after its first iteration
LeavesAfterFirst(n) == n >= 1

\* the loop "for (let i = n; i > 0; i--)" is in its last iteration
LastIteration(n) == n = 1

\* await sleep(ms): one timer of the wait between statements fires
SleepTick ==
  /\ pc = "try" /\ call = "none" /\ Cur.kind = "sleep" /\ i > 0
  /\ slept' = slept + Cur.ms
  /\ IF LastIteration(i)
     THEN Advance(<< >>)
     ELSE i' = i - 1 /\ UNCHANGED << pc, ip, events >>
  /\ UNCHANGED << config, cluster, call, inTxn, error, failedAt, thrown, outcome,
                  swallowed, abortFailed, rest, atCommit >>

(***************************************************************************)
(* How an awaited call ends.                                               *)
(***************************************************************************)
InCall == pc \in {"try", "abort", "endSession", "close"}

Returns ==
  /\ InCall /\ call = "inflight" /\ CanSucceed(Stage)
  /\ Succeed(Stage)
  /\ call' = "none"
  /\ UNCHANGED << config, cluster, rest, hist >>

Raises ==
  /\ InCall /\ call = "inflight" /\ CanRaise(Stage)
  /\ \E e \in EngineErrors(Stage) : Raise(Stage, e)
  /\ call' = "none"
  /\ UNCHANGED << config, cluster, rest, hist >>

Blocks ==
  /\ InCall /\ call = "inflight"
  /\ \E w \in CanWaitFor(Stage) : call' = w
  /\ UNCHANGED << config, cluster, pc, ip, i, events, inTxn, error, failedAt, thrown,
                  outcome, swallowed, abortFailed, rest, hist >>

\* the members the pending call waits for answer again
Recovers ==
  /\ InCall /\ call \in WaitKinds /\ CanRecover(Stage, call)
  /\ Succeed(Stage)
  /\ call' = "none"
  /\ UNCHANGED << config, cluster, rest, hist >>

\* a stopped member is detected and the engine fails the pending call
PendingRaises ==
  /\ InCall /\ call \in WaitKinds /\ AnyStopped /\ CanRaise(Stage)
  /\ \E e \in EngineErrors(Stage) : Raise(Stage, e)
  /\ call' = "none"
  /\ UNCHANGED << config, cluster, rest, hist >>

\* a timeout the runner configured (or the driver's default) ends the pending call
TimeoutFires ==
  /\ InCall /\ call \in WaitKinds /\ BoundApplies(K, Stage, call)
  /\ \E e \in TimeoutErrors(K, Stage, call) : Raise(Stage, e)
  /\ fired' = fired \cup {<< Stage, call >>}
  /\ call' = "none"
  /\ UNCHANGED << config, cluster, session, category, abortAttempts, endSessionCalls,
                  closeCalls, hist, exitCode >>

\* Ctrl+C while the run hangs
Interrupt ==
  /\ InCall /\ call \in WaitKinds
  /\ pc' = "interrupted"
  /\ UNCHANGED << config, cluster, ip, i, call, events, inTxn, error, failedAt, thrown,
                  outcome, swallowed, abortFailed, rest, hist >>

(***************************************************************************)
(* The catch block and the finally block.                                  *)
(***************************************************************************)
\* the classification chain; a TypeError raised by it leaves the catch block
ClassifyError ==
  /\ pc = "classify"
  /\ category' = Classify(runner, error)
  /\ IF category' = "TypeError"
     THEN thrown' = "TypeError" /\ pc' = "endSession"
     ELSE thrown' = thrown /\ pc' = "abort"
  /\ UNCHANGED << config, cluster, ip, i, call, session, inTxn, error, failedAt, outcome,
                  swallowed, counters, events, hist, fired, exitCode >>

\* the guard without the inTransaction() test
AbortGuardSessionOnly == session = "started"

\* if (session && session.inTransaction())
AbortGuardHolds == session = "started" /\ inTxn

AbortGuard ==
  /\ pc = "abort" /\ call = "none"
  /\ IF AbortGuardHolds
     THEN /\ call' = "inflight"
          /\ abortAttempts' = abortAttempts + 1
          /\ pc' = pc
     ELSE /\ pc' = "endSession"
          /\ UNCHANGED << call, abortAttempts >>
  /\ UNCHANGED << config, cluster, ip, i, session, inTxn, caught, outcome, swallowed,
                  abortFailed, endSessionCalls, closeCalls, events, hist, fired, exitCode >>

\* endSession called without looking at the session
EndSessionUnguarded == TRUE

\* finally: if (session)
EndSessionGuardHolds == session = "started"

\* finally: if (session) await session.endSession()
EndSessionGuard ==
  /\ pc = "endSession" /\ call = "none"
  /\ IF EndSessionGuardHolds
     THEN /\ call' = "inflight"
          /\ endSessionCalls' = endSessionCalls + 1
          /\ pc' = pc
     ELSE /\ pc' = "close"
          /\ UNCHANGED << call, endSessionCalls >>
  /\ UNCHANGED << config, cluster, ip, i, session, inTxn, caught, outcome, swallowed,
                  abortAttempts, abortFailed, closeCalls, events, hist, fired, exitCode >>

\* finally: await client.close()
CloseIssue ==
  /\ pc = "close" /\ call = "none"
  /\ call' = "inflight"
  /\ closeCalls' = closeCalls + 1
  /\ UNCHANGED << config, cluster, pc, ip, i, session, inTxn, caught, outcome, swallowed,
                  abortAttempts, abortFailed, endSessionCalls, events, hist, fired,
                  exitCode >>

\* .then(() => process.exit(0)) / .catch(() => process.exit(1))
ExitStatus(t) == IF t = "none" THEN 0 ELSE 1

Settle ==
  /\ pc = "settle"
  /\ exitCode' = ExitStatus(thrown)
  /\ pc' = "exited"
  /\ UNCHANGED << config, cluster, ip, i, call, session, inTxn, caught, outcome, swallowed,
                  counters, events, hist, fired >>

(***************************************************************************)
(* Fault injection from another terminal while the run is in progress.     *)
(***************************************************************************)
Running == pc \in {"try", "abort", "endSession", "close"}

Inject(from, to) ==
  /\ Running /\ faultOps < MaxFaultOps
  /\ members[from] > 0
  /\ members' = [members EXCEPT ![from] = @ - 1, ![to] = @ + 1]
  /\ faultOps' = faultOps + 1
  /\ UNCHANGED << config, pc, ip, i, call, session, inTxn, caught, outcome, swallowed,
                  counters, events, hist, fired, exitCode >>

\* docker stop / kill-member
StopMember == Inject("up", "stopped")
\* docker pause
PauseMember == Inject("up", "paused")
\* partition-members.sh
PartitionMember == Inject("up", "partitioned")
\* start-member, docker unpause, restore-members.sh
RestoreMember == \E from \in Statuses \ {"up"} : Inject(from, "up")

Next ==
  \/ IssueTry \/ StartSession \/ StartTransaction \/ SleepTick
  \/ Returns \/ Raises \/ Blocks \/ Recovers \/ PendingRaises \/ TimeoutFires \/ Interrupt
  \/ ClassifyError \/ AbortGuard \/ EndSessionGuard \/ CloseIssue \/ Settle
  \/ StopMember \/ PauseMember \/ PartitionMember \/ RestoreMember

Spec == Init /\ [][Next]_vars

(***************************************************************************)
(* The catch block on every value it can be handed: the first insert of a  *)
(* run against a healthy replica set has just raised e.                    *)
(***************************************************************************)
FirstOp(r) == CHOOSE k \in 1..Len(Programs[r]) :
                /\ Programs[r][k].kind = "op"
                /\ \A j \in 1..(k - 1) : Programs[r][j].kind # "op"

\* begin and end of the statements before statement k, then the begin of k
EventsUpTo(k) == [j \in 1..(2 * k - 1) |->
                    IF j % 2 = 1 THEN Ev("begin", (j + 1) \div 2) ELSE Ev("end", j \div 2)]

InitCatch ==
  /\ runner \in Runners
  /\ env = [n \in EnvNames |-> "unset"]
  /\ socketDefault = "none"
  /\ members = [st \in Statuses |-> IF st = "up" THEN MemberCount ELSE 0]
  /\ faultOps = 0
  /\ pc = "classify" /\ ip = FirstOp(runner) /\ i = 0 /\ call = "none"
  /\ session = "started" /\ inTxn = TRUE
  /\ error \in ThrownValues /\ failedAt = "op" /\ category = "none" /\ thrown = "none"
  /\ outcome = "AbortedWithError" /\ swallowed = 0
  /\ abortAttempts = 0 /\ abortFailed = FALSE /\ endSessionCalls = 0 /\ closeCalls = 0
  /\ events = EventsUpTo(FirstOp(runner)) /\ slept = 0 /\ atCommit = "notIssued"
  /\ fired = {} /\ exitCode = -1
  /\ now = 0 /\ runs = NoRuns /\ sh = NoScript

NextCatch ==
  \/ ClassifyError \/ AbortGuard \/ Returns \/ Raises
  \/ EndSessionGuard \/ CloseIssue \/ Settle

SpecCatch == InitCatch /\ [][NextCatch]_vars

(***************************************************************************)
(* Classification claims.                                                  *)
(***************************************************************************)
Classified == category # "none"
\* the runners whose catch block tests the three timeout rules
TimeoutRuleRunners == {"bounded", "notimeout", "hangcommit"}
TopologyNames == {"NotPrimaryOrSecondary", "InterruptedDueToReplStateChange",
                  "NotWritablePrimary"}
\* an error object whose hasErrorLabel, when present, is a function
WellFormed(e) == e.kind = "object" /\ e.label # "noncallable"

\* the six-rule table of the specification, first match wins
TableCategory(e) ==
  IF IsOperationTimeout(e) THEN "OperationTimeout"
  ELSE IF IsWriteConcernTimeout(e) THEN "WriteConcernTimeout"
  ELSE IF IsCommitTimeout(e) THEN "CommitTimeout"
  ELSE IF e.label = "transient" THEN "Retryable"
  ELSE IF e.codeName \in TopologyNames THEN "TopologyChange"
  ELSE "Unclassified"

C2_ClassifierTotal == category # "TypeError"

\* C3: the category of a failure is the first matching rule of the six-rule
\* table, for every combination of code, symbolic name and label.
C3_FirstMatchOfTable ==
  (Classified /\ runner \in TimeoutRuleRunners /\ WellFormed(error))
  => category = TableCategory(error)

\* C4: a failure with a topology-change name, matching no timeout rule and
\* carrying no retryable label, is classified TopologyChange in every run.
C4_TopologyChange ==
  (Classified /\ WellFormed(error) /\ error.codeName \in TopologyNames
     /\ ~IsOperationTimeout(error) /\ ~IsWriteConcernTimeout(error)
     /\ ~IsCommitTimeout(error) /\ ~HasTransientLabel(error))
  => category = "TopologyChange"

(***************************************************************************)
(* Abort and cleanup claims.                                               *)
(***************************************************************************)
Done == pc \in {"settle", "exited"}
PastAbort == pc \in {"endSession", "close", "settle", "exited"}

\* C5 as stated: a run in which any stage failed attempted the abort exactly
\* once.
C5_Original ==
  (Done /\ (failedAt # "none" \/ swallowed > 0)) => abortAttempts = 1

\* C5 (amended): the abort is attempted at most once per run and only for a
\* failure caught while the session reports an active transaction: exactly
\* once when an operation failed and the catch block reached its abort guard,
\* never after a failure of connect, startSession or startTransaction, and
\* never in a run without a caught failure (a failed createIndex is discarded
\* and the run goes on).
C5_AbortAtMostOnceWhenActive ==
  /\ abortAttempts <= 1
  /\ abortAttempts = 1 => (failedAt \in {"op", "commit"} /\ session = "started")
  /\ (PastAbort /\ failedAt = "op" /\ category # "TypeError") => abortAttempts = 1

C5_Witness == pc = "exited" /\ failedAt = "op" /\ abortAttempts = 1

ProgramStep ==
  \/ IssueTry \/ StartSession \/ StartTransaction \/ SleepTick
  \/ ClassifyError \/ AbortGuard \/ EndSessionGuard \/ CloseIssue \/ Settle
EngineAnswers == Returns \/ Raises \/ Blocks

FairSpec ==
  /\ Spec
  /\ WF_vars(ProgramStep)
  /\ WF_vars(EngineAnswers)
  /\ WF_vars(TimeoutFires)
  /\ WF_vars(Recovers)

BoundedPolicy ==
  /\ runner = "bounded"
  /\ Finite(K.wtimeout) /\ Finite(K.maxCommitTimeMS) /\ Finite(K.maxTimeMS)

\* C7: a run under the Bounded policy always reaches a terminal outcome,
\* committed or aborted with an error (or is interrupted by the user),
\* whatever is done to the replica members.
C7_BoundedRunTerminates == BoundedPolicy ~> (outcome # "none" \/ pc = "interrupted")

CommitInFlight == pc = "try" /\ Cur.kind = "commit" /\ call # "none"
TwoUnreachable == members["up"] <= 1
HangRunners == {"hangcommit", "hangpause"}

Positions(ev) == {j \in 1..Len(events) : events[j] = ev}
Happened(ev) == Positions(ev) # {}
Before(a, b) == \A x \in Positions(a), y \in Positions(b) : x < y
SleepSteps == {k \in 1..Len(Prog) : Prog[k].kind = "sleep"}
\* the milliseconds of the sleep statements before statement k of program p
RECURSIVE SleepMsIn(_, _)
SleepMsIn(p, k) ==
  IF k <= 1 THEN 0
  ELSE SleepMsIn(p, k - 1)
         + (IF p[k - 1].kind = "sleep" THEN p[k - 1].n * p[k - 1].ms ELSE 0)
SleepMsTable == [r \in Runners |-> [k \in 1..Len(Programs[r]) |-> SleepMsIn(Programs[r], k)]]
SleepMsBefore(k) == SleepMsTable[runner][k]

\* C10: every wait between statements happens at most once and, once the
\* statement after it is issued, exactly once and in full; it begins after the
\* statement before it has completed and ends before the statement after it
\* (an operation or the commit) is issued; nothing is issued while a wait is
\* in progress.
C10_CheckpointOrdering ==
  /\ \A k \in 1..Len(Prog) :
       /\ Cardinality(Positions(Ev("begin", k))) <= 1
       /\ Cardinality(Positions(Ev("end", k))) <= 1
       /\ Happened(Ev("begin", k)) => slept >= SleepMsBefore(k)
  /\ \A k \in SleepSteps :
       /\ Happened(Ev("begin", k)) =>
            (Happened(Ev("end", k - 1)) /\ Before(Ev("end", k - 1), Ev("begin", k)))
       /\ Happened(Ev("begin", k + 1)) =>
            (Happened(Ev("end", k)) /\ Before(Ev("end", k), Ev("begin", k + 1)))
       /\ Happened(Ev("end", k)) => Before(Ev("begin", k), Ev("end", k))
  /\ (pc = "try" /\ Cur.kind = "sleep") =>
       /\ call = "none" /\ i > 0
       /\ \A k \in (ip + 1)..Len(Prog) : ~Happened(Ev("begin", k))
  /\ slept <= SleepMsBefore(Len(Prog))
  /\ (pc = "try" /\ Cur.kind # "sleep") => slept = SleepMsBefore(ip)

C10_Witness ==
  /\ runner = "hangcommit" /\ pc = "try" /\ Cur.kind = "commit" /\ call = "inflight"
  /\ slept = HangCommitCountdown * CountdownSleepMs + HangCommitExtraSleepMs

(***************************************************************************)
(* The hang scenarios as the README runs them: a hang runner, and members  *)
(* stopped, paused, partitioned or restored only while the countdown       *)
(* before the commit is running.                                           *)
(***************************************************************************)
\* the run is in the wait that precedes its commit
InBeforeCommitWait ==
  /\ pc = "try" /\ Cur.kind = "sleep"
  /\ \A k \in ip..Len(Prog) : Prog[k].kind \in {"sleep", "commit"}

InitHang == Init /\ runner \in HangRunners

NextCheckpointFaults ==
  \/ IssueTry \/ StartSession \/ StartTransaction \/ SleepTick
  \/ Returns \/ Raises \/ Blocks \/ PendingRaises \/ TimeoutFires \/ Interrupt
  \/ ClassifyError \/ AbortGuard \/ EndSessionGuard \/ CloseIssue \/ Settle
  \/ (InBeforeCommitWait /\ StopMember)
  \/ (InBeforeCommitWait /\ PauseMember)
  \/ (InBeforeCommitWait /\ PartitionMember)
  \/ (InBeforeCommitWait /\ RestoreMember)

SpecCheckpointFaults == InitHang /\ [][NextCheckpointFaults]_vars

OpSteps == {k \in 1..Len(Prog) : Prog[k].kind = "op"}
Pending == InCall /\ call \in WaitKinds
\* no operation is pending, and the inserts all completed before the wait began
NoOperationSuspends ==
  /\ Pending => Stage # "op"
  /\ \A k \in SleepSteps : Happened(Ev("begin", k)) =>
       \A j \in OpSteps : Happened(Ev("end", j)) /\ Before(Ev("end", j), Ev("begin", k))
  /\ \A k \in SleepSteps, j \in OpSteps : Before(Ev("begin", j), Ev("begin", k))

TxnSteps == {k \in 1..Len(Prog) : Prog[k].kind \in {"op", "commit"}}
\* statements issued and neither returned nor failed
Outstanding == {k \in 1..Len(Prog) : Happened(Ev("begin", k)) /\ ~Happened(Ev("end", k))
                                       /\ Prog[k].kind # "sleep"}
IssuedInOrder ==
  /\ \A k \in TxnSteps : Happened(Ev("begin", k)) =>
       \A j \in TxnSteps : j < k =>
         /\ Happened(Ev("end", j))
         /\ Before(Ev("begin", j), Ev("end", j))
         /\ Before(Ev("end", j), Ev("begin", k))
  /\ Cardinality(Outstanding) <= 1
  /\ (call # "none" /\ pc = "try") => Outstanding = {ip}
  /\ failedAt # "none" => \A k \in (ip + 1)..Len(Prog) : ~Happened(Ev("begin", k))

\* C12: operations are issued in program order, one at a time, each after the
\* one before it succeeded; commit is issued only after every operation
\* succeeded; once a failure is caught nothing more is issued.
C12_SequentialOperations ==
  /\ []IssuedInOrder
  /\ [][failedAt # "none" => (events' = events /\ ip' = ip /\ failedAt' = failedAt)]_vars

C12_Witness ==
  /\ pc = "exited" /\ runner = "bounded" /\ failedAt = "op" /\ Prog[ip].n = 1
  /\ ~Happened(Ev("begin", ip + 2)) /\ ~Happened(Ev("begin", Len(Prog)))

(***************************************************************************)
(* The smoke test testMongoTimeouts: connect, insertOne, findOne, then one *)
(* transaction through session.withTransaction, which runs the callback    *)
(* and the commit, and runs the whole transaction again on the same        *)
(* session when either fails with the TransientTransactionError label.     *)
(* Statements: 1 connect, 2 insertOne, 3 findOne, 4 startSession,          *)
(* 5 startTransaction, 6 updateOne (the callback), 7 commit, 8 endSession, *)
(* 9 close.                                                                *)
(***************************************************************************)
SmokeConnect == 1
SmokeInsert == 2
SmokeFind == 3
SmokeStartSession == 4
SmokeStartTxn == 5
SmokeUpdate == 6
SmokeCommit == 7
SmokeEndSession == 8
SmokeCloseStmt == 9
SmokeAwaited == {SmokeConnect, SmokeInsert, SmokeFind, SmokeUpdate, SmokeCommit,
                 SmokeEndSession, SmokeCloseStmt}
SmokeErrors == {ETransient, EWriteConcern, EDuplicate, EPlain}
\* transactions started so far
Started == Cardinality(Positions(Ev("begin", SmokeStartTxn)))

\* withTransaction runs the transaction again: the failure carries the label
\* and the time limit has not passed
WithTransactionRetries(e) == HasTransientLabel(e) /\ Started <= MaxRetries

InitSmoke ==
  /\ runner = "smoke"
  /\ env = [n \in EnvNames |-> "unset"]
  /\ socketDefault = "finite"
  /\ members = [st \in Statuses |-> IF st = "up" THEN MemberCount ELSE 0]
  /\ faultOps = 0
  /\ pc = "smoke" /\ ip = SmokeConnect /\ i = 0 /\ call = "none"
  /\ session = "null" /\ inTxn = FALSE
  /\ error = NoError /\ failedAt = "none" /\ category = "none" /\ thrown = "none"
  /\ outcome = "none" /\ swallowed = 0
  /\ abortAttempts = 0 /\ abortFailed = FALSE /\ endSessionCalls = 0 /\ closeCalls = 0
  /\ events = << >> /\ slept = 0 /\ atCommit = "notIssued" /\ fired = {} /\ exitCode = -1
  /\ now = 0 /\ runs = NoRuns /\ sh = NoScript

smokeFixed == << config, cluster, i, category, thrown, abortFailed, slept, atCommit, fired >>

\* an awaited call of the smoke test is issued
SmokeIssue ==
  /\ pc = "smoke" /\ call = "none" /\ ip \in SmokeAwaited
  /\ call' = "inflight"
  /\ events' = events \o << Ev("begin", ip) >>
  /\ endSessionCalls' = endSessionCalls + (IF ip = SmokeEndSession THEN 1 ELSE 0)
  /\ closeCalls' = closeCalls + (IF ip = SmokeCloseStmt THEN 1 ELSE 0)
  /\ UNCHANGED << smokeFixed, pc, ip, session, inTxn, error, failedAt, outcome, swallowed,
                  abortAttempts, exitCode >>

\* const session = client.startSession(); withTransaction starts the transaction
SmokeBegin ==
  /\ pc = "smoke" /\ call = "none" /\ ip \in {SmokeStartSession, SmokeStartTxn}
  /\ session' = "started"
  /\ inTxn' = (ip = SmokeStartTxn)
  /\ events' = events \o << Ev("begin", ip) >>
  /\ ip' = ip + 1
  /\ UNCHANGED << smokeFixed, pc, call, error, failedAt, outcome, swallowed, abortAttempts,
                  endSessionCalls, closeCalls, exitCode >>

SmokeReturns ==
  /\ pc = "smoke" /\ call = "inflight"
  /\ call' = "none"
  /\ events' = events \o << Ev("end", ip) >>
  /\ inTxn' = IF ip = SmokeCommit THEN FALSE ELSE inTxn
  /\ outcome' = IF ip = SmokeCommit THEN "Committed" ELSE outcome
  /\ CASE ip = SmokeEndSession /\ error # NoError ->
             pc' = "smokeCatch" /\ UNCHANGED << ip, exitCode >>
        [] ip = SmokeCloseStmt ->
             pc' = "exited" /\ exitCode' = 0 /\ UNCHANGED ip
        [] OTHER ->
             ip' = ip + 1 /\ UNCHANGED << pc, exitCode >>
  /\ UNCHANGED << smokeFixed, session, error, failedAt, swallowed, abortAttempts,
                  endSessionCalls, closeCalls >>

\* an awaited call rejects; inside withTransaction the transaction is aborted
\* and, when the failure is retryable, run again on the same session
SmokeRaises ==
  /\ pc = "smoke" /\ call = "inflight"
  /\ ip \in {SmokeConnect, SmokeInsert, SmokeFind, SmokeUpdate, SmokeCommit}
  /\ call' = "none"
  /\ \E e \in SmokeErrors :
       IF ip \in {SmokeUpdate, SmokeCommit}
       THEN /\ abortAttempts' = abortAttempts + (IF ip = SmokeUpdate THEN 1 ELSE 0)
            /\ inTxn' = FALSE
            /\ IF WithTransactionRetries(e)
               THEN ip' = SmokeStartTxn /\ UNCHANGED << error, failedAt, outcome >>
               ELSE /\ ip' = SmokeEndSession
                    /\ error' = e
                    /\ failedAt' = IF ip = SmokeUpdate THEN "op" ELSE "commit"
                    /\ outcome' = "AbortedWithError"
            /\ pc' = pc
       ELSE /\ pc' = "smokeCatch"
            /\ error' = e
            /\ failedAt' = IF ip = SmokeConnect THEN "connect" ELSE "op"
            /\ outcome' = "AbortedWithError"
            /\ UNCHANGED << ip, inTxn, abortAttempts >>
  /\ UNCHANGED << smokeFixed, session, swallowed, endSessionCalls, closeCalls, events,
                  exitCode >>

\* catch (err) { console.error(...) }: the failure is logged and dropped
SmokeCatch ==
  /\ pc = "smokeCatch"
  /\ pc' = "smoke" /\ ip' = SmokeCloseStmt
  /\ swallowed' = swallowed + 1
  /\ UNCHANGED << smokeFixed, call, session, inTxn, error, failedAt, outcome, abortAttempts,
                  endSessionCalls, closeCalls, events, exitCode >>

NextSmoke == SmokeIssue \/ SmokeBegin \/ SmokeReturns \/ SmokeRaises \/ SmokeCatch

SpecSmoke == InitSmoke /\ [][NextSmoke]_vars

\* C13: in one run every statement (each operation, the commit, startSession,
\* startTransaction) is issued at most once, after any failure.
C13_NoRetry ==
  \A k \in 1..Len(events) : \A j \in 1..Len(events) :
     (k # j /\ events[k][1] = "begin") => events[k] # events[j]

(***************************************************************************)
(* Outcome claims.                                                         *)
(***************************************************************************)
CommitReturned == \E k \in 1..Len(Prog) : Prog[k].kind = "commit" /\ Happened(Ev("end", k))
OneOutcome ==
  /\ pc = "exited" => outcome \in {"Committed", "AbortedWithError"}
  /\ outcome = "Committed" =>
       (CommitReturned /\ failedAt = "none" /\ error = NoError /\ category = "none")
  /\ outcome = "AbortedWithError" => (~CommitReturned /\ failedAt # "none" /\ error # NoError)

C15_NeverSwallows ==
  swallowed > 0 => (outcome = "AbortedWithError" /\ failedAt = "createIndex")

(***************************************************************************)
(* The bounded runner under every setting of its three environment         *)
(* variables (unset, empty, "0", a negative integer), against a healthy    *)
(* replica set.                                                            *)
(***************************************************************************)
EnvValuesAll == {"unset", "", "0", "-5"}

InitEnv ==
  /\ runner = "bounded"
  /\ env \in [EnvNames -> EnvValuesAll]
  /\ socketDefault = "none"
  /\ members = [st \in Statuses |-> IF st = "up" THEN MemberCount ELSE 0]
  /\ faultOps = 0
  /\ pc = "try" /\ ip = 1 /\ i = 0 /\ call = "none"
  /\ session = "null" /\ inTxn = FALSE
  /\ error = NoError /\ failedAt = "none" /\ category = "none" /\ thrown = "none"
  /\ outcome = "none" /\ swallowed = 0
  /\ abortAttempts = 0 /\ abortFailed = FALSE /\ endSessionCalls = 0 /\ closeCalls = 0
  /\ events = << >> /\ slept = 0 /\ atCommit = "notIssued" /\ fired = {} /\ exitCode = -1
  /\ now = 0 /\ runs = NoRuns /\ sh = NoScript

NextEnv ==
  \/ IssueTry \/ StartSession \/ StartTransaction \/ SleepTick
  \/ Returns \/ Raises
  \/ ClassifyError \/ AbortGuard \/ EndSessionGuard \/ CloseIssue \/ Settle

SpecEnv == InitEnv /\ [][NextEnv]_vars

NegativeKnob == K.wtimeout.ms < 0 \/ K.maxCommitTimeMS.ms < 0 \/ K.maxTimeMS.ms < 0

\* C16: with W_TIMEOUT_MS, MAX_COMMIT_MS or OP_MAXTIME_MS set to a negative
\* integer the run issues no call to the engine: it does not connect, starts
\* no session and starts no transaction.
C16_NegativeRejected ==
  NegativeKnob => (events = << >> /\ call = "none" /\ session = "null" /\ ~inTxn)

\* the option each environment variable sets, and its documented default
KnobOf(n) ==
  CASE n = "W_TIMEOUT_MS" -> K.wtimeout
    [] n = "MAX_COMMIT_MS" -> K.maxCommitTimeMS
    [] n = "OP_MAXTIME_MS" -> K.maxTimeMS
DefaultOf(n) ==
  CASE n = "W_TIMEOUT_MS" -> DefaultWTimeoutMs
    [] n = "MAX_COMMIT_MS" -> DefaultMaxCommitMs
    [] n = "OP_MAXTIME_MS" -> DefaultOpMaxTimeMs

\* C17: in the bounded runner an unset W_TIMEOUT_MS, MAX_COMMIT_MS or
\* OP_MAXTIME_MS gives 2000, 1500 and 1000 ms; an option reaches the engine
\* as unbounded only when the caller set its variable; and with the variables
\* unset a wait for the majority is bounded at every operation and at commit.
C17_AbsentMapsToDefault ==
  runner = "bounded" =>
    /\ \A n \in EnvNames :
         /\ env[n] = "unset" => (KnobOf(n) = Ms(DefaultOf(n)) /\ Finite(KnobOf(n)))
         /\ ~Finite(KnobOf(n)) => env[n] # "unset"
    /\ (Pending /\ call = "majority" /\ Stage = "op" /\ env["OP_MAXTIME_MS"] = "unset")
         => BoundApplies(K, Stage, call)
    /\ (Pending /\ call = "majority" /\ Stage = "commit"
          /\ (env["W_TIMEOUT_MS"] = "unset" \/ env["MAX_COMMIT_MS"] = "unset"))
         => BoundApplies(K, Stage, call)

C17_Witness ==
  /\ runner = "bounded" /\ env = [n \in EnvNames |-> "unset"]
  /\ << "commit", "majority" >> \in fired /\ error = EWriteConcern

(***************************************************************************)
(* Several launches of one runner on one machine, one after another or     *)
(* side by side.  Each takes its testId from the clock, inserts a document *)
(* carrying it into the collection with the unique index on testId, sleeps *)
(* between its operations and finishes.                                    *)
(***************************************************************************)
Launches == 1..MaxRuns
singleRun == << runner, env, socketDefault, members, faultOps, pc, ip, i, call, session,
               inTxn, error, failedAt, category, thrown, outcome, swallowed,
               abortAttempts, abortFailed, endSessionCalls, closeCalls, events, slept,
               atCommit, fired, exitCode >>

\* `test-${Date.now()}`
TestId(t) == << "test-", t >>

InitRuns ==
  /\ runner \in {"bounded", "notimeout"}
  /\ env = [n \in EnvNames |-> "unset"]
  /\ socketDefault \in {"none", "finite"}
  /\ members = [st \in Statuses |-> IF st = "up" THEN MemberCount ELSE 0]
  /\ faultOps = 0
  /\ pc = "try" /\ ip = 1 /\ i = 0 /\ call = "none"
  /\ session = "null" /\ inTxn = FALSE
  /\ error = NoError /\ failedAt = "none" /\ category = "none" /\ thrown = "none"
  /\ outcome = "none" /\ swallowed = 0
  /\ abortAttempts = 0 /\ abortFailed = FALSE /\ endSessionCalls = 0 /\ closeCalls = 0
  /\ events = << >> /\ slept = 0 /\ atCommit = "notIssued" /\ fired = {}
  /\ exitCode = -1 /\ now = 0 /\ runs = NoRuns /\ sh = NoScript

\* npm run run:tx, at any time
LaunchRun(p) ==
  /\ runs[p].pc = "idle"
  /\ runs' = [runs EXCEPT ![p].pc = "started"]
  /\ UNCHANGED << now, sh, singleRun >>

\* const testId = `test-${Date.now()}`
NameRun(p) ==
  /\ runs[p].pc = "started"
  /\ runs' = [runs EXCEPT ![p] = [pc |-> "named", id |-> TestId(now)]]
  /\ UNCHANGED << now, sh, singleRun >>

\* insertOne of the document carrying testId; the unique index refuses a
\* testId another launch has written
InsertRun(p) ==
  /\ runs[p].pc = "named"
  /\ runs' = [runs EXCEPT ![p].pc =
                IF \E q \in Launches \ {p} :
                     runs[q].pc \in {"inserted", "done"} /\ runs[q].id = runs[p].id
                THEN "duplicate" ELSE "inserted"]
  /\ UNCHANGED << now, sh, singleRun >>

\* the sleep between the operations has passed; update and commit
FinishRun(p) ==
  /\ runs[p].pc = "inserted" /\ now > runs[p].id[2]
  /\ runs' = [runs EXCEPT ![p].pc = "done"]
  /\ UNCHANGED << now, sh, singleRun >>

\* a millisecond passes
ClockTick ==
  /\ now < MaxClock
  /\ now' = now + 1
  /\ UNCHANGED << runs, sh, singleRun >>

NextRuns ==
  \/ \E p \in Launches : LaunchRun(p)
  \/ \E p \in Launches : NameRun(p)
  \/ \E p \in Launches : InsertRun(p)
  \/ \E p \in Launches : FinishRun(p)
  \/ ClockTick

SpecRuns == InitRuns /\ [][NextRuns]_vars

\* C18: no two launches of one runner, one after another or side by side,
\* use the same testId, and none is refused for a testId another launch wrote.
C18_FreshIdentifier ==
  /\ \A p \in Launches, q \in Launches :
       (p # q /\ runs[p].id # << >> /\ runs[q].id # << >>) => runs[p].id # runs[q].id
  /\ \A p \in Launches : runs[p].pc # "duplicate"

(***************************************************************************)
(* The kill-member scenario: the bounded runner, and one member killed     *)
(* before the run or at any point of it; the other two stay up.            *)
(***************************************************************************)
InitKill ==
  /\ runner = "bounded"
  /\ env \in EnvConfigs
  /\ socketDefault \in {"none", "finite"}
  /\ \E killed \in {0, 1} :
       /\ members = [st \in Statuses |-> CASE st = "up" -> MemberCount - killed
                                            [] st = "stopped" -> killed
                                            [] OTHER -> 0]
       /\ faultOps = killed
  /\ pc = "try" /\ ip = 1 /\ i = 0 /\ call = "none"
  /\ session = "null" /\ inTxn = FALSE
  /\ error = NoError /\ failedAt = "none" /\ category = "none" /\ thrown = "none"
  /\ outcome = "none" /\ swallowed = 0
  /\ abortAttempts = 0 /\ abortFailed = FALSE /\ endSessionCalls = 0 /\ closeCalls = 0
  /\ events = << >> /\ slept = 0 /\ atCommit = "notIssued" /\ fired = {}
  /\ exitCode = -1 /\ now = 0 /\ runs = NoRuns /\ sh = NoScript

\* npm run kill:member, once
KillOne == members["stopped"] = 0 /\ faultOps = 0 /\ StopMember

NextKill ==
  \/ IssueTry \/ StartSession \/ StartTransaction \/ SleepTick
  \/ Returns \/ Raises
  \/ ClassifyError \/ AbortGuard \/ EndSessionGuard \/ CloseIssue \/ Settle
  \/ KillOne

SpecKill == InitKill /\ [][NextKill]_vars

\* a runnable statement runs and an issued call is answered
FairKill == SpecKill /\ WF_vars(ProgramStep) /\ WF_vars(Returns \/ Raises)

NothingFailed == failedAt = "none"

\* the kill leaves every call of the run answerable and nothing waiting
KillHarmless ==
  /\ (InCall /\ call = "inflight") => (CanSucceed(Stage) /\ CanWaitFor(Stage) = {})
  /\ call \notin WaitKinds /\ fired = {}
  /\ (pc = "exited" /\ NothingFailed) => (outcome = "Committed" /\ exitCode = 0)
  /\ outcome = "Committed" => NothingFailed

InitLoseMajority ==
  /\ Init
  /\ runner = "bounded"
  /\ env = [n \in EnvNames |-> "unset"]

\* npm run stop:member before npm run run:tx
StopBeforeRun == pc = "try" /\ ip = 1 /\ call = "none" /\ StopMember

\* npm run stop:member while the run sleeps between the insert and the update
StopBeforeUpdate == pc = "try" /\ Cur.kind = "sleep" /\ StopMember

NextLoseMajority ==
  \/ IssueTry \/ StartSession \/ StartTransaction \/ SleepTick
  \/ Returns \/ Blocks \/ PendingRaises \/ TimeoutFires
  \/ ClassifyError \/ AbortGuard \/ EndSessionGuard \/ CloseIssue \/ Settle
  \/ StopBeforeRun \/ StopBeforeUpdate

SpecLoseMajority == InitLoseMajority /\ [][NextLoseMajority]_vars

\* the majority was lost before the update was issued
MajorityLost == members["stopped"] = 2

\* C20: in the lose-majority scenario under the bounded policy (wtimeout
\* 2000), with two of the three members stopped before the update/commit
\* step, a run that has ended has failed and its classified category is
\* WriteConcernTimeout, and no other category.
C20_LoseMajorityWriteConcernTimeout ==
  (pc = "exited" /\ MajorityLost) =>
    (outcome = "AbortedWithError" /\ category = "WriteConcernTimeout")

(***************************************************************************)
(* The scripts of scripts/.  While a script runs no transaction runner     *)
(* does: the runner's variables keep their initial values.                 *)
(***************************************************************************)
harness == << singleRun, now, runs >>

HarnessIdle ==
  /\ runner = "bounded"
  /\ env = [n \in EnvNames |-> "unset"]
  /\ socketDefault = "none"
  /\ members = [st \in Statuses |-> IF st = "up" THEN MemberCount ELSE 0]
  /\ faultOps = 0
  /\ pc = "try" /\ ip = 1 /\ i = 0 /\ call = "none"
  /\ session = "null" /\ inTxn = FALSE
  /\ error = NoError /\ failedAt = "none" /\ category = "none" /\ thrown = "none"
  /\ outcome = "none" /\ swallowed = 0
  /\ abortAttempts = 0 /\ abortFailed = FALSE /\ endSessionCalls = 0 /\ closeCalls = 0
  /\ events = << >> /\ slept = 0 /\ atCommit = "notIssued" /\ fired = {}
  /\ exitCode = -1 /\ now = 0 /\ runs = NoRuns

(***************************************************************************)
(* partition-members.sh and restore-members.sh acting on one member's      *)
(* container.  The container is paused or not, has the iptables tool or    *)
(* not, may or may not be allowed to change its packet filter, and has an  *)
(* INPUT and an OUTPUT chain of rules.                                     *)
(***************************************************************************)
LoopbackRule == "ACCEPT lo"
DropRule == "DROP"

\* the four iptables -A commands of the partition script, in order
PartitionRules ==
  << [chain |-> "INPUT", rule |-> LoopbackRule], [chain |-> "INPUT", rule |-> DropRule],
     [chain |-> "OUTPUT", rule |-> LoopbackRule], [chain |-> "OUTPUT", rule |-> DropRule] >>

\* a chain drops the traffic that is not loopback traffic
Drops(chain) == \E k \in 1..Len(chain) : chain[k] = DropRule

\* an iptables command succeeds in the container
IptablesWorks == sh.tool /\ sh.netAdmin

\* the member cannot be reached: it is paused, or both chains drop
Unreachable == sh.paused \/ (Drops(sh.input) /\ Drops(sh.output))

\* the member is running, unpaused and carries no traffic-dropping rule
Restored == sh.running /\ ~sh.paused /\ ~Drops(sh.input) /\ ~Drops(sh.output)

InitNet ==
  /\ HarnessIdle
  /\ \E run \in BOOLEAN, tool \in BOOLEAN, adm \in BOOLEAN :
       sh = [script |-> "none", pc |-> "idle", k |-> 0, running |-> run, paused |-> FALSE,
             tool |-> tool, netAdmin |-> adm, input |-> << >>, output |-> << >>,
             said |-> "none", exit |-> -1, launched |-> 0, done |-> << >>]

\* npm run partition:member -- <member>
StartPartition ==
  /\ sh.script = "none" /\ sh.launched < MaxScripts
  /\ sh' = [sh EXCEPT !.script = "partition", !.pc = "exec", !.k = 0, !.said = "none",
                      !.exit = -1, !.launched = @ + 1]
  /\ UNCHANGED harness

\* docker exec "$member" sh -c '...' cannot start in a container that is
\* stopped or paused, and docker may fail to start it in a running one;
\* otherwise the inner script begins
PartitionExec ==
  /\ sh.script = "partition" /\ sh.pc = "exec"
  /\ \E started \in BOOLEAN :
       sh' = [sh EXCEPT !.pc = IF sh.running /\ ~sh.paused /\ started
                                THEN "apt" ELSE "fallback"]
  /\ UNCHANGED harness

\* apt-get update || true; apt-get install -y iptables || true
PartitionApt ==
  /\ sh.script = "partition" /\ sh.pc = "apt"
  /\ \E installed \in BOOLEAN :
       sh' = [sh EXCEPT !.tool = @ \/ installed, !.pc = "iptables", !.k = 1]
  /\ UNCHANGED harness

\* one iptables -A command; the inner shell goes on to the next command
\* whether or not this one succeeded
PartitionAppend ==
  /\ sh.script = "partition" /\ sh.pc = "iptables"
  /\ LET r == PartitionRules[sh.k]
         last == sh.k = Len(PartitionRules)
         next == [sh EXCEPT !.pc = IF last THEN "echo" ELSE "iptables",
                            !.k = IF last THEN 0 ELSE @ + 1]
     IN  sh' = IF ~IptablesWorks THEN next
               ELSE IF r.chain = "INPUT"
                    THEN [next EXCEPT !.input = Append(@, r.rule)]
                    ELSE [next EXCEPT !.output = Append(@, r.rule)]
  /\ UNCHANGED harness

\* echo "Network traffic blocked" is the last command of the inner script,
\* so docker exec returns its status, 0, and the || branch is not taken
PartitionEcho ==
  /\ sh.script = "partition" /\ sh.pc = "echo"
  /\ sh' = [sh EXCEPT !.pc = "report"]
  /\ UNCHANGED harness

\* || { docker pause "$member" }; under set -e a failing pause ends the script
PartitionFallback ==
  /\ sh.script = "partition" /\ sh.pc = "fallback"
  /\ sh' = IF sh.running /\ ~sh.paused
           THEN [sh EXCEPT !.paused = TRUE, !.pc = "report"]
           ELSE [sh EXCEPT !.script = "none", !.pc = "idle", !.exit = 1,
                           !.done = Append(@, "partition failed")]
  /\ UNCHANGED harness

\* echo "  ✓ $member partitioned", the end of the loop and of the script
PartitionReport ==
  /\ sh.script = "partition" /\ sh.pc = "report"
  /\ sh' = [sh EXCEPT !.script = "none", !.pc = "idle", !.said = "partitioned", !.exit = 0,
                      !.done = Append(@, "partition")]
  /\ UNCHANGED harness

\* npm run restore:member -- <member>
StartRestore ==
  /\ sh.script = "none" /\ sh.launched < MaxScripts
  /\ sh' = [sh EXCEPT !.script = "restore", !.pc = "unpause", !.k = 0, !.said = "none",
                      !.exit = -1, !.launched = @ + 1]
  /\ UNCHANGED harness

\* docker unpause "$member" 2>/dev/null && echo "unpaused" && continue
RestoreUnpause ==
  /\ sh.script = "restore" /\ sh.pc = "unpause"
  /\ sh' = IF sh.running /\ sh.paused
           THEN [sh EXCEPT !.paused = FALSE, !.script = "none", !.pc = "idle",
                           !.said = "unpaused", !.exit = 0, !.done = Append(@, "restore")]
           ELSE [sh EXCEPT !.pc = "exec"]
  /\ UNCHANGED harness

\* docker exec "$member" sh -c 'iptables -F; iptables -X; iptables -P ...;
\* echo' && echo "network restored" || echo "Could not restore"
RestoreExec ==
  /\ sh.script = "restore" /\ sh.pc = "exec"
  /\ LET end == [sh EXCEPT !.script = "none", !.pc = "idle", !.exit = 0,
                           !.done = Append(@, "restore")]
     IN  sh' = IF ~sh.running THEN [end EXCEPT !.said = "could not restore"]
               ELSE IF IptablesWorks
                    THEN [end EXCEPT !.input = << >>, !.output = << >>,
                                     !.said = "network restored"]
                    ELSE [end EXCEPT !.said = "network restored"]
  /\ UNCHANGED harness

\* docker pause mongo2 mongo3, typed between two scripts
DockerPause ==
  /\ sh.script = "none" /\ sh.running /\ ~sh.paused /\ sh.launched < MaxScripts
  /\ sh' = [sh EXCEPT !.paused = TRUE, !.launched = @ + 1, !.done = Append(@, "pause")]
  /\ UNCHANGED harness

NextNet ==
  \/ StartPartition \/ PartitionExec \/ PartitionApt \/ PartitionAppend
  \/ PartitionEcho \/ PartitionFallback \/ PartitionReport
  \/ StartRestore \/ RestoreUnpause \/ RestoreExec
  \/ DockerPause

SpecNet == InitNet /\ [][NextNet]_vars

\* the partition script has just reported the member partitioned and exited 0
PartitionReported ==
  /\ sh.script = "none" /\ sh.exit = 0 /\ sh.said = "partitioned"
  /\ Len(sh.done) > 0 /\ sh.done[Len(sh.done)] = "partition"

\* C21: when the partition script reports the member partitioned and exits
\* with status 0, the member is unreachable (paused, or traffic-dropping
\* rules installed), whatever the commands run inside the container returned.
C21_PartitionReportedImpliesUnreachable == PartitionReported => Unreachable

(***************************************************************************)
(* The member-lifecycle scripts: start-member, kill-member, stepdown and   *)
(* the replica-set initialization.  Text the scripts match or edit is a    *)
(* sequence of characters.                                                 *)
(***************************************************************************)
\* max_attempts=30
MaxAttempts == 30

Mongo == << "m", "o", "n", "g", "o" >>
MemberName(d) == Mongo \o << d >>

\* what the user may pass as $1
Arguments ==
  { << >>, MemberName("1"), MemberName("2"), MemberName("3"), MemberName("4"),
    MemberName("2") \o << "2" >>, << "x" >> \o MemberName("1") }

\* the pattern found anywhere in the name
MemberNameMatchesUnanchored(a) ==
  \E k \in 1..(Len(a) - 5) :
    SubSeq(a, k, k + 4) = Mongo /\ a[k + 5] \in {"1", "2", "3"}

\* [[ "$MEMBER" =~ ^mongo[1-3]$ ]]
MemberNameMatches(a) ==
  Len(a) = 6 /\ SubSeq(a, 1, 5) = Mongo /\ a[6] \in {"1", "2", "3"}

\* needle occurs in hay, as grep finds it in a line
Contains(hay, needle) ==
  \E k \in 1..(Len(hay) - Len(needle) + 1) : SubSeq(hay, k, k + Len(needle) - 1) = needle

Healthy == << "h", "e", "a", "l", "t", "h", "y" >>

\* the STATUS column of docker compose ps for each health state of a container
StatusText(h) ==
  CASE h = "healthy" -> << "U", "p", " ", "(" >> \o Healthy \o << ")" >>
    [] h = "unhealthy" -> << "U", "p", " ", "(", "u", "n" >> \o Healthy \o << ")" >>
    [] h = "starting" -> << "U", "p", " ", "(", "h", "e", "a", "l", "t", "h", ":", " ",
                            "s", "t", "a", "r", "t", "i", "n", "g", ")" >>
    [] OTHER -> << "E", "x", "i", "t", "e", "d" >>

HealthStates == {"healthy", "unhealthy", "starting", "exited"}

\* docker compose ps $MEMBER | grep -q "healthy"
GrepHealthy(h) == Contains(StatusText(h), Healthy)

\* tr -d "'\""
StripQuotes(t) == SelectSeq(t, LAMBDA c : c \notin {"'", "\""})

\* what the lookup prints: the name of the member whose stateStr is PRIMARY,
\* quoted or not, and nothing when find() returns undefined or mongosh fails
LookupOutputs ==
  { << >>, MemberName("1"), << "'" >> \o MemberName("2") \o << "'" >>,
    << "\"" >> \o MemberName("3") \o << "\"" >> }

\* for port in 27017 27018 27019
InitPorts == << 27017, 27018, 27019 >>

\* the loop is left after its first port
LoopEndsAfterFirst(n) == n = 1

\* the for loop has gone through every port
LoopEnds(n) == n = Len(InitPorts)

LifecycleScripts == {"start", "kill", "stepdown", "init"}

InitLifecycle ==
  /\ HarnessIdle
  /\ \E script \in LifecycleScripts, a \in Arguments :
       /\ script \in {"stepdown", "init"} => a = << >>
       /\ sh = [script |-> script, arg |-> a, pc |-> IF script = "init" THEN "wait" ELSE "args",
                attempt |-> 0, port |-> 1, ready |-> << >>,
                docker |-> << >>, said |-> << >>, passed |-> FALSE, primary |-> << >>,
                exit |-> -1]

\* the script ends with the given status
Exit(status) == [sh EXCEPT !.pc = "done", !.exit = status]

\* if [ -z "$1" ] ... exit 1; if [[ ! "$MEMBER" =~ ^mongo[1-3]$ ]] ... exit 1
CheckArgument ==
  /\ sh.script \in {"start", "kill"} /\ sh.pc = "args"
  /\ sh' = IF sh.arg = << >> THEN [Exit(1) EXCEPT !.said = Append(@, "Usage")]
           ELSE IF ~MemberNameMatches(sh.arg)
                THEN [Exit(1) EXCEPT !.said = Append(@, "Invalid member name")]
                ELSE [sh EXCEPT !.pc = "act"]
  /\ UNCHANGED harness

\* docker compose start $MEMBER; under set -e its failure ends the script
ComposeStart ==
  /\ sh.script = "start" /\ sh.pc = "act"
  /\ \E ok \in BOOLEAN :
       sh' = IF ok THEN [sh EXCEPT !.pc = "wait", !.docker = Append(@, "compose start")]
             ELSE [Exit(1) EXCEPT !.docker = Append(@, "compose start")]
  /\ UNCHANGED harness

\* one evaluation of the until condition and, when it is false, of the loop
\* body: attempt=$((attempt + 1)); if [ $attempt -ge $max_attempts ]; break
HealthCheck ==
  /\ sh.script = "start" /\ sh.pc = "wait"
  /\ \E h \in HealthStates, ping \in BOOLEAN :
       /\ (h = "exited" => ~ping)
       /\ sh' = IF GrepHealthy(h) \/ ping
                THEN [sh EXCEPT !.pc = "report", !.passed = (h = "healthy" \/ ping)]
                ELSE IF sh.attempt + 1 >= MaxAttempts
                     THEN [sh EXCEPT !.pc = "report", !.attempt = @ + 1,
                                     !.said = Append(@, "Warning: may not be fully healthy yet")]
                     ELSE [sh EXCEPT !.attempt = @ + 1]
  /\ UNCHANGED harness

\* echo "$MEMBER started successfully!"; docker compose ps
ReportStarted ==
  /\ sh.script = "start" /\ sh.pc = "report"
  /\ sh' = [Exit(0) EXCEPT !.said = Append(@, "started successfully"),
                           !.docker = Append(@, "compose ps")]
  /\ UNCHANGED harness

\* docker compose kill $MEMBER; echo "$MEMBER killed successfully!"; docker compose ps
ComposeKill ==
  /\ sh.script = "kill" /\ sh.pc = "act"
  /\ \E ok \in BOOLEAN :
       sh' = IF ok THEN [Exit(0) EXCEPT !.docker = sh.docker \o << "compose kill", "compose ps" >>,
                                        !.said = Append(@, "killed successfully")]
             ELSE [Exit(1) EXCEPT !.docker = Append(@, "compose kill")]
  /\ UNCHANGED harness

\* PRIMARY_HOST=$(docker exec mongo1 mongosh ... | tr -d "'\"");
\* if [ -z "$PRIMARY_HOST" ] ... exit 1
FindPrimary ==
  /\ sh.script = "stepdown" /\ sh.pc = "args"
  /\ \E out \in LookupOutputs :
       LET host == StripQuotes(out)
           looked == [sh EXCEPT !.docker = Append(@, "exec rs.status"), !.primary = host]
       IN  sh' = IF host = << >>
                 THEN [looked EXCEPT !.pc = "done", !.exit = 1,
                                     !.said = Append(@, "Could not find primary member")]
                 ELSE [looked EXCEPT !.pc = "act"]
  /\ UNCHANGED harness

\* docker exec mongo1 mongosh --host "$PRIMARY_HOST" ... replSetStepDown || true,
\* then the status listing || true
StepDown ==
  /\ sh.script = "stepdown" /\ sh.pc = "act"
  /\ sh' = [Exit(0) EXCEPT !.docker = sh.docker \o << "exec replSetStepDown", "exec rs.status" >>,
                           !.said = Append(@, "Primary step down initiated")]
  /\ UNCHANGED harness

\* one evaluation of the until condition of the current port and, when the
\* ping is not answered, of the loop body; an answered ping ends the inner loop
PingPort ==
  /\ sh.script = "init" /\ sh.pc = "wait"
  /\ \E answered \in BOOLEAN :
       sh' = IF answered
             THEN [sh EXCEPT !.ready = Append(@, InitPorts[sh.port]), !.attempt = 0,
                             !.pc = IF LoopEnds(sh.port) THEN "act" ELSE "wait",
                             !.port = IF LoopEnds(sh.port) THEN @ ELSE @ + 1]
             ELSE IF sh.attempt + 1 >= MaxAttempts
                  THEN [Exit(1) EXCEPT !.attempt = @ + 1,
                                       !.said = Append(@, "Failed to connect")]
                  ELSE [sh EXCEPT !.attempt = @ + 1]
  /\ UNCHANGED harness

\* docker exec mongo1 mongosh --quiet --eval 'rs.initiate({...})'; under set -e
\* its failure ends the script; then sleep 5, the status listing || true, echo
Initiate ==
  /\ sh.script = "init" /\ sh.pc = "act"
  /\ \E ok \in BOOLEAN :
       sh' = IF ok
             THEN [Exit(0) EXCEPT !.docker = sh.docker \o << "exec rs.initiate", "exec rs.status" >>,
                                  !.said = Append(@, "Replica set initialization complete")]
             ELSE [Exit(1) EXCEPT !.docker = Append(@, "exec rs.initiate")]
  /\ UNCHANGED harness

NextLifecycle ==
  \/ CheckArgument \/ ComposeStart \/ HealthCheck \/ ReportStarted \/ ComposeKill
  \/ FindPrimary \/ StepDown
  \/ PingPort \/ Initiate

SpecLifecycle == InitLifecycle /\ [][NextLifecycle]_vars

\* a script that can take a step takes it
FairLifecycle == SpecLifecycle /\ WF_vars(NextLifecycle)

\* a docker command that acts on the replica set or a member
ActingCommands == {"compose start", "compose kill", "exec replSetStepDown", "exec rs.initiate"}
Issued(cmds) == \E k \in 1..Len(sh.docker) : sh.docker[k] \in cmds

\* C22: start-member reports success only if the member passed a health
\* check, and gives a distinguishable non-success result (a status other
\* than 0, no success message) when it is still unhealthy after 30 attempts.
C22_HealthWaitReportsResult ==
  (sh.script = "start" /\ sh.pc = "done"
     /\ (sh.exit = 0 \/ Contains(sh.said, << "started successfully" >>)))
    => sh.passed

ValidNames == {MemberName("1"), MemberName("2"), MemberName("3")}

\* the script has ended with status 1
Rejected == sh.pc = "done" /\ sh.exit = 1

\* C29: the initialization issues rs.initiate only after the members on
\* ports 27017, 27018 and 27019 have each answered a ping, in that order; a
\* member that has not answered after 30 attempts makes the script exit with
\* status 1 without rs.initiate; and the script always ends.
C29_InitGatedAndBounded ==
  /\ [](sh.script = "init" =>
          /\ sh.attempt <= MaxAttempts
          /\ (Issued({"exec rs.initiate"}) => sh.ready = InitPorts)
          /\ (sh.pc = "act" => sh.ready = InitPorts)
          /\ (sh.attempt = MaxAttempts =>
                (Rejected /\ ~Issued({"exec rs.initiate"}) /\ Len(sh.ready) < Len(InitPorts)))
          /\ sh.ready = SubSeq(InitPorts, 1, Len(sh.ready)))
  /\ (sh.script = "init" ~> sh.pc = "done")

C29_Witness ==
  /\ sh.script = "init" /\ sh.pc = "done" /\ sh.exit = 0
  /\ Issued({"exec rs.initiate"}) /\ sh.ready = InitPorts

\* C30: start-member and kill-member issue no docker command and exit with
\* status 1 when the member name is missing or is not mongo1, mongo2 or
\* mongo3; stepdown issues no replSetStepDown and exits with status 1 when
\* the lookup finds no PRIMARY.
C30_BadInputRejected ==
  /\ (sh.script \in {"start", "kill"} /\ sh.pc # "args" /\ sh.arg \notin ValidNames)
       => (Rejected /\ sh.docker = << >>)
  /\ (sh.script = "stepdown" /\ sh.pc # "args" /\ sh.primary = << >>)
       => (Rejected /\ ~Issued({"exec replSetStepDown"}))

C30_Witness ==
  /\ sh.script = "kill" /\ sh.arg = MemberName("2") \o << "2" >>
  /\ Rejected /\ sh.docker = << >>

\* restore has just run on a member that partition had reported partitioned
RestoredAfterPartition ==
  /\ sh.script = "none" /\ Len(sh.done) > 1
  /\ sh.done[Len(sh.done)] = "restore"
  /\ \E k \in 1..(Len(sh.done) - 1) : sh.done[k] = "partition"

\* C28: after partition and then restore on a member, the member is running,
\* unpaused and has no traffic-dropping rule, whichever mechanism partition
\* used, also when partition was applied more than once and when the member
\* was both paused and rule-blocked.
C28_PartitionRestoreRoundTrip ==
  (sh.pc = "idle" /\ RestoredAfterPartition) => Restored

(***************************************************************************)
(* The fault-injection window of the hang-on-commit run.                   *)
(***************************************************************************)
\* "Wait for the countdown (20 seconds)"
DocumentedCountdownSeconds == 20

\* the milliseconds between the end of the last operation and the commit
\* attempt: the hang-on-commit run sleeps nowhere else
CommitWindowMs == slept

\* C23: in the hang-on-commit run, when the commit is attempted the window
\* since the last operation completed has lasted the documented 20 seconds.
C23_WindowIsDocumentedCountdown ==
  (runner = "hangcommit" /\ atCommit # "notIssued")
    => CommitWindowMs = DocumentedCountdownSeconds * 1000

(***************************************************************************)
(* The finally block.                                                      *)
(***************************************************************************)
\* the run is in its finally block or past it
InFinally == pc \in {"endSession", "close", "settle", "exited"}

\* client.close() has returned
Closed == pc \in {"settle", "exited"}

CleanupCounts ==
  /\ endSessionCalls <= 1 /\ closeCalls <= 1
  /\ endSessionCalls = 1 => session = "started"
  /\ closeCalls = 1 =>
       (pc \in {"close", "settle", "exited"}
          /\ endSessionCalls = (IF session = "started" THEN 1 ELSE 0))
  /\ Closed => closeCalls = 1
  /\ (Closed /\ failedAt = "connect") => (session = "null" /\ endSessionCalls = 0)

AbortInvoked == abortAttempts' > abortAttempts

\* C25: abortTransaction is invoked only from the catch block of a failed
\* run, with a session that exists and reports an active transaction; it is
\* never invoked while the session is null, nor when inTransaction() is
\* false, nor in a run that committed.
C25_AbortOnlyWhileActive ==
  /\ [][AbortInvoked =>
          (pc = "abort" /\ session = "started" /\ inTxn /\ outcome = "AbortedWithError")]_vars
  /\ []((session = "null" \/ outcome = "Committed") => abortAttempts = 0)

C25_Witness ==
  /\ pc = "exited" /\ failedAt = "commit" /\ abortAttempts = 1 /\ session = "started"

(***************************************************************************)
(* The four classification chains side by side.                            *)
(***************************************************************************)
\* the catch block has classified the value it received
HasClassified == Classified /\ category = Classify(runner, error)

\* C26: for every failure value a catch block has classified, the four
\* runners derive the same category.
C26_RunnersClassifyAlike ==
  HasClassified => \A r \in Runners : Classify(r, error) = category

(***************************************************************************)
(* The exit status of the process.                                         *)
(***************************************************************************)
\* the catch block handled a failure of the transaction and did not raise
FailureHandled == outcome = "AbortedWithError" /\ thrown = "none"

\* C27: a run whose transaction failed and was handled by the catch block
\* does not exit with status 0, the status of a committed run.
C27_ExitStatusSeparatesFailure ==
  (pc = "exited" /\ FailureHandled) => exitCode # 0

====
